---- MODULE Spec2Model ----
(***************************************************************************)
(* Model of src/app.py: the startup fetch of Office 365 documents          *)
(* (get_access_token, fetch_o365_documents), the module-level construction *)
(* of docs and documents_table, pw.run, and the query handler              *)
(* search_documents.                                                       *)
(*                                                                         *)
(* Python values.  A str is a sequence of one-character strings            *)
(* ("ab" is <<"a","b">>), a list is a sequence, a dict is a function       *)
(* whose DOMAIN is the set of its keys (a key that is absent from the JSON *)
(* object is absent from the DOMAIN), and None is the value None below,    *)
(* which is no str because its only element is not one character.         *)
(***************************************************************************)
EXTENDS Integers, Sequences, FiniteSets, TLC

VARIABLES
    pc,               \* position of the module's top-level code
    token,            \* fetch_o365_documents: local token
    sites,            \* fetch_o365_documents: local sites
    si,               \* fetch_o365_documents: index of the site the for loop is at
    documents,        \* fetch_o365_documents: local documents
    docs,             \* module global docs (line 79)
    documents_table,  \* module global documents_table (lines 89-99)
    globals,          \* the module-level names that are bound so far
    out,              \* the messages printed so far
    last,             \* the last request answered through `output`
    rows              \* rows of input_table in flight, by connection slot

vars == <<pc, token, sites, si, documents, docs, documents_table,
          globals, out, last, rows>>

(***************************************************************************)
(* Bounds of the environment.                                              *)
(***************************************************************************)
MaxSites == 6
MaxFiles == 11
MaxSmall == 2
MaxInFlight == 2
MaxConcSites == 1

(***************************************************************************)
(* Program constants.                                                      *)
(***************************************************************************)
SiteLimit == 5
FileLimit == 10
ResultLimit == 5
HTTP_OK == 200

None == <<"None">>

(***************************************************************************)
(* str and dict helpers.                                                   *)
(***************************************************************************)
UpperCase == <<"A","B","C","D","E","F","G","H","I","J","K","L","M",
               "N","O","P","Q","R","S","T","U","V","W","X","Y","Z">>
LowerCase == <<"a","b","c","d","e","f","g","h","i","j","k","l","m",
               "n","o","p","q","r","s","t","u","v","w","x","y","z">>

UpperSet == { UpperCase[k] : k \in 1..Len(UpperCase) }
LowerOf ==
    [c \in UpperSet |-> LowerCase[CHOOSE k \in 1..Len(UpperCase) : UpperCase[k] = c]]

\* one character of str.lower()
LowerChar(c) == IF c \in UpperSet THEN LowerOf[c] ELSE c

\* str.lower()
lower(s) == [k \in 1..Len(s) |-> LowerChar(s[k])]

\* seq[:n]
Slice(seq, n) == SubSeq(seq, 1, IF Len(seq) < n THEN Len(seq) ELSE n)

\* s.endswith(ext)
endswith(s, ext) ==
    /\ Len(ext) <= Len(s)
    /\ SubSeq(s, Len(s) - Len(ext) + 1, Len(s)) = ext

\* needle in hay, as a left-to-right scan from position k
RECURSIVE FindFrom(_, _, _)
FindFrom(needle, hay, k) ==
    IF k + Len(needle) - 1 > Len(hay) THEN FALSE
    ELSE IF SubSeq(hay, k, k + Len(needle) - 1) = needle THEN TRUE
    ELSE FindFrom(needle, hay, k + 1)

\* the `in` operator on two str (ContainsNonEmpty: a scan that finds no
\* empty needle)
ContainsNonEmpty(needle, hay) == Len(needle) > 0 /\ FindFrom(needle, hay, 1)
Contains(needle, hay) == FindFrom(needle, hay, 1)

\* dict.get(key, default)
Get(obj, key, default) == IF key \in DOMAIN obj THEN obj[key] ELSE default

\* truth value of a str or None
Truthy(v) == v # None /\ v # <<>>

\* truth value of a list
NonEmpty(list) == Len(list) > 0

IsStr(v) == v # None

\* what an f-string writes for a value
Format(v) == IF IsStr(v) THEN v ELSE <<"N","o","n","e">>

(***************************************************************************)
(* The Document Source: what Microsoft Graph may answer.                   *)
(***************************************************************************)
TEXT_EXTENSIONS ==
    << <<".","t","x","t">>, <<".","m","d">>,
       <<".","d","o","c","x">>, <<".","p","d","f">> >>

FileFacet == <<"f">>

FileBase ==
    << [file |-> FileFacet, name |-> <<"A","b",".","t","x","t">>, webUrl |-> <<"u","1">>],
       [folder |-> FileFacet, name |-> <<"A","b">>, webUrl |-> <<"u","2">>],
       [file |-> FileFacet, name |-> <<"b",".","m","d">>],
       [file |-> FileFacet, name |-> <<"B","A",".","p","d","f">>, webUrl |-> None],
       [file |-> FileFacet, name |-> <<"a",".","p","n","g">>, webUrl |-> <<"u","5">>],
       [file |-> FileFacet, webUrl |-> <<"u","6">>],
       [file |-> FileFacet, name |-> <<"a","b",".","d","o","c","x">>, webUrl |-> <<"u","7">>] >>

\* a child whose name is JSON null
NullNameFile == [file |-> FileFacet, name |-> None, webUrl |-> <<"u","0">>]

FileAt(k) == FileBase[((k - 1) % Len(FileBase)) + 1]

SiteBase ==
    << [id |-> <<"1">>, displayName |-> <<"F","i","n","a","n","c","e">>],
       [id |-> <<"2">>],
       [id |-> <<"3">>, displayName |-> <<"h","r">>],
       [id |-> <<"4">>, displayName |-> None],
       [id |-> <<"5">>, displayName |-> <<"D","e","v">>],
       [id |-> <<"6">>, displayName |-> <<"O","p","s">>],
       [displayName |-> <<"N","o","I","d">>] >>

SiteAt(k) == SiteBase[((k - 1) % Len(SiteBase)) + 1]

\* the value of the sites listing: n sites from position off+1 of the tenant
SiteList(off, n) == [k \in 1..n |-> SiteAt(off + k)]

LargeSiteId == <<"1">>

\* the lists of children a drive may answer with
DriveValues(site_id) ==
    IF site_id = LargeSiteId
    THEN { [k \in 1..n |-> FileAt(k)] : n \in 0..MaxFiles }
    ELSE { [k \in 1..n |-> FileAt(k + 2)] : n \in 0..MaxSmall }
         \cup { <<FileAt(1), NullNameFile, FileAt(3)>> }

\* acquire_token_for_client: a token, an error result, or an exception
TokenOutcomes == {"token", "error", "raise"}

\* requests.get(sites_url).json(): an exception, a body without "value",
\* or a body with a list of sites
SitesResponses ==
    { [kind |-> "raise"] }
    \cup { [kind |-> "json", body |-> [error |-> <<"e">>]] }
    \cup { [kind |-> "json", body |-> [value |-> SiteList(off, n)]] :
             off \in 0..(Len(SiteBase) - 1), n \in 0..MaxSites }

\* requests.get(drive_url): an exception, a status other than 200,
\* or status 200 with a list of children
DriveResponses(site_id) ==
    { [kind |-> "raise"] }
    \cup { [kind |-> "http", status_code |-> 403,
            body |-> [error |-> <<"e">>]] }
    \cup { [kind |-> "http", status_code |-> HTTP_OK, body |-> [value |-> v]] :
             v \in DriveValues(site_id) }

(***************************************************************************)
(* fetch_o365_documents, lines 58-68: the loop over the children of one    *)
(* drive.  Returns the documents list after the loop and whether the loop  *)
(* raised; an exception leaves the entries appended so far in the list.    *)
(***************************************************************************)
HasTextExtension(file_name) ==
    \E e \in 1..Len(TEXT_EXTENSIONS) : endswith(file_name, TEXT_EXTENSIONS[e])

NewDocument(site_name, file) ==
    [name    |-> Get(file, "name", <<>>),
     site    |-> site_name,
     url     |-> Get(file, "webUrl", <<>>),
     content |-> <<"D",":">> \o Format(site_name) \o <<":">>
                   \o Get(file, "name", <<>>)]

RECURSIVE ProcessFiles(_, _, _, _)
ProcessFiles(files, k, site_name, acc) ==
    IF k > Len(files) THEN [documents |-> acc, raised |-> FALSE]
    ELSE IF ~Truthy(Get(files[k], "file", None))
         THEN ProcessFiles(files, k + 1, site_name, acc)
    ELSE IF ~IsStr(Get(files[k], "name", <<>>))
         THEN [documents |-> acc, raised |-> TRUE]      \* None.endswith
    ELSE IF HasTextExtension(Get(files[k], "name", <<>>))
         THEN ProcessFiles(files, k + 1, site_name,
                           Append(acc, NewDocument(site_name, files[k])))
    ELSE ProcessFiles(files, k + 1, site_name, acc)

(***************************************************************************)
(* search_documents, lines 117-135.                                        *)
(***************************************************************************)
\* the condition of the comprehension (line 126) on one document.  The
\* right operand of `or` is evaluated only when the left one is false, and
\* None.lower() raises AttributeError.  (MatchesContent: a condition that
\* searches the content too.)
MatchesContent(d, query_lower) ==
    IF Contains(query_lower, lower(d.name))
    THEN [raised |-> FALSE, value |-> TRUE]
    ELSE IF ~IsStr(d.site) THEN [raised |-> TRUE, value |-> FALSE]
    ELSE [raised |-> FALSE,
          value |-> Contains(query_lower, lower(d.site))
                    \/ Contains(query_lower, lower(d.content))]
Matches(d, query_lower) ==
    IF Contains(query_lower, lower(d.name))
    THEN [raised |-> FALSE, value |-> TRUE]
    ELSE IF ~IsStr(d.site) THEN [raised |-> TRUE, value |-> FALSE]
    ELSE [raised |-> FALSE, value |-> Contains(query_lower, lower(d.site))]

\* the expression of the comprehension (line 124)  (ProjectWithContent: an
\* expression that keeps the content)
ProjectWithContent(d) ==
    [name |-> d.name, site |-> d.site, url |-> d.url, content |-> d.content]
Project(d) == [name |-> d.name, site |-> d.site, url |-> d.url]

\* one iteration of the comprehension on document k
ComprehensionStep(store, k, query_lower, acc) ==
    LET m == Matches(store[k], query_lower) IN
    IF m.raised THEN [matching_docs |-> acc, raised |-> TRUE]
    ELSE IF m.value THEN [matching_docs |-> Append(acc, Project(store[k])), raised |-> FALSE]
    ELSE [matching_docs |-> acc, raised |-> FALSE]

\* the comprehension of lines 123-127 from document k on
RECURSIVE Comprehension(_, _, _, _)
Comprehension(store, k, query_lower, acc) ==
    IF k > Len(store) THEN [matching_docs |-> acc, raised |-> FALSE]
    ELSE LET r == ComprehensionStep(store, k, query_lower, acc) IN
         IF r.raised THEN r
         ELSE Comprehension(store, k + 1, query_lower, r.matching_docs)

\* the dict of lines 129-135  (SuccessResultCountsReturned: a dict that
\* counts the matches after the slice)
SuccessResultCountsReturned(store, query, matching_docs) ==
    [status |-> "success",
     query |-> query,
     total_documents |-> Len(store),
     matching_documents |-> Len(Slice(matching_docs, ResultLimit)),
     results |-> Slice(matching_docs, ResultLimit)]
SuccessResult(store, query, matching_docs) ==
    [status |-> "success",
     query |-> query,
     total_documents |-> Len(store),
     matching_documents |-> Len(matching_docs),
     results |-> Slice(matching_docs, ResultLimit)]

\* the dict of line 119  (EmptyResultSuccess: the same with status success)
EmptyResultSuccess(query) == [status |-> "success", count |-> 0, query |-> query]
EmptyResult(query) == [status |-> "No documents found", count |-> 0, query |-> query]

\* what a call of search_documents produces: the exception it raises, or
\* the dict it returns together with its local matching_docs
Outcome(store, query, c) ==
    IF c.raised
    THEN [raised |-> TRUE, matching_docs |-> c.matching_docs]
    ELSE [raised |-> FALSE, matching_docs |-> c.matching_docs,
          result |-> SuccessResult(store, query, c.matching_docs)]

search_documents(store, query) ==
    IF ~NonEmpty(store)
    THEN [raised |-> FALSE, matching_docs |-> <<>>, result |-> EmptyResult(query)]
    ELSE Outcome(store, query, Comprehension(store, 1, lower(query), <<>>))

(***************************************************************************)
(* Queries sent to the endpoint.                                           *)
(***************************************************************************)
Queries ==
    { <<>>, <<"A","B">>, <<"b",".">>, <<"f","i","n">>, <<"N">>,
      <<"D">>, <<"z">> }

ConcQueries == { <<>>, <<"A","B">>, <<"z">> }

\* the sites listings of the runs with requests in flight
SmallSitesResponses ==
    { [kind |-> "raise"] }
    \cup { [kind |-> "json", body |-> [value |-> SiteList(off, n)]] :
             off \in 1..(Len(SiteBase) - 1), n \in 0..MaxConcSites }

Slots == 1..MaxInFlight
Idle == [phase |-> "idle"]
NoResponse == [phase |-> "none"]

(***************************************************************************)
(* Startup: lines 78-79 with get_access_token and fetch_o365_documents.    *)
(***************************************************************************)
Init ==
    /\ pc = "fetch"
    /\ token = None
    /\ sites = <<>>
    /\ si = 0
    /\ documents = <<>>
    /\ docs = <<>>
    /\ documents_table = <<>>
    /\ globals = {}
    /\ out = {"connecting"}
    /\ last = NoResponse
    /\ rows = [s \in Slots |-> Idle]

\* fetch_o365_documents returns d after printing msgs, and line 79 binds
\* docs to it
Return(d, msgs) ==
    /\ docs' = d
    /\ globals' = globals \cup {"docs"}
    /\ out' = out \cup msgs
    /\ pc' = "table"
    /\ token' = None
    /\ sites' = <<>>
    /\ si' = 0
    /\ documents' = <<>>
    /\ UNCHANGED <<documents_table, last, rows>>

\* get_access_token (lines 15-27), called at line 31 outside the try
\* statement, and the test of lines 32-33
GetAccessToken ==
    /\ pc = "fetch"
    /\ \E outcome \in TokenOutcomes :
         CASE outcome = "raise" ->
                /\ pc' = "crashed"
                /\ UNCHANGED <<token, sites, si, documents, docs,
                               documents_table, globals, out, last, rows>>
           [] outcome = "error" -> Return(<<>>, {"error_token"})
           [] outcome = "token" ->
                /\ token' = <<"t">>
                /\ documents' = <<>>
                /\ pc' = "sites"
                /\ UNCHANGED <<sites, si, docs, documents_table,
                               globals, out, last, rows>>

\* lines 40-44: the listing of the sites
ListSitesFrom(responses) ==
    /\ pc = "sites"
    /\ \E resp \in responses :
         IF resp.kind = "raise"
         THEN Return(documents, {"error_fetch"})
         ELSE /\ sites' = Get(resp.body, "value", <<>>)
              /\ si' = 1
              /\ out' = out \cup {"found"}
              /\ pc' = "loop"
              /\ UNCHANGED <<token, documents, docs, documents_table,
                             globals, last, rows>>

ListSites == ListSitesFrom(SitesResponses)

ListSitesSmall == ListSitesFrom(SmallSitesResponses)

\* lines 47-68: one iteration of the loop over sites[:5]
VisitSite ==
    /\ pc = "loop"
    /\ si <= Len(Slice(sites, SiteLimit))
    /\ LET site == Slice(sites, SiteLimit)[si]
           site_name == Get(site, "displayName", <<"U","n","k","n","o","w","n">>)
       IN  IF "id" \notin DOMAIN site
           THEN Return(documents, {"error_fetch"})            \* KeyError
           ELSE \E resp \in DriveResponses(site.id) :
                  IF resp.kind = "raise"
                  THEN Return(documents, {"error_fetch"})
                  ELSE IF resp.status_code # HTTP_OK
                  THEN /\ si' = si + 1
                       /\ UNCHANGED <<pc, token, sites, documents, docs,
                                      documents_table, globals, out, last, rows>>
                  ELSE LET files == Get(resp.body, "value", <<>>)
                           r == ProcessFiles(Slice(files, FileLimit), 1,
                                             site_name, documents)
                       IN  IF r.raised
                           THEN Return(r.documents, {"error_fetch"})
                           ELSE /\ documents' = r.documents
                                /\ si' = si + 1
                                /\ UNCHANGED <<pc, token, sites, docs,
                                               documents_table, globals, out,
                                               last, rows>>

\* lines 70-75: the loop is over
FinishFetch ==
    /\ pc = "loop"
    /\ si > Len(Slice(sites, SiteLimit))
    /\ Return(documents, {"fetched"})

\* lines 89-99.  The table is connected to no output; building it from
\* the rows is taken to succeed whatever the values of the fields are.
BuildTable ==
    /\ pc = "table"
    /\ documents_table' =
         IF NonEmpty(docs)
         THEN [k \in 1..Len(docs) |->
                 <<docs[k].name, docs[k].site, docs[k].url, docs[k].content>>]
         ELSE <<>>
    /\ globals' = globals \cup {"documents_table"}
    /\ pc' = "serve"
    /\ UNCHANGED <<token, sites, si, documents, docs, out, last, rows>>

\* lines 105-146: the webserver, the connector and the output table are
\* declared, and pw.run starts to serve  (PwRunEarly: serving that may
\* start before the fetch)
PwRunEarly ==
    /\ pc \in {"fetch", "serve"}
    /\ globals' = globals \cup {"webserver", "output"}
    /\ out' = out \cup {"starting"}
    /\ pc' = "run"
    /\ UNCHANGED <<token, sites, si, documents, docs, documents_table, last, rows>>
PwRun ==
    /\ pc = "serve"
    /\ globals' = globals \cup {"webserver", "output"}
    /\ out' = out \cup {"starting"}
    /\ pc' = "run"
    /\ UNCHANGED <<token, sites, si, documents, docs, documents_table, last, rows>>

(***************************************************************************)
(* Requests, lines 138-143.                                                *)
(***************************************************************************)
Answer(query, outcome) == [phase |-> "done", query |-> query] @@ outcome

\* one request as a whole: a row of input_table, search_documents applied
\* to its query (line 140) and the row of output handed to response_writer.
\* last keeps the dict before json.dumps, next to the local matching_docs;
\* an exception of the call is kept as raised = TRUE.
HandleRequest ==
    /\ pc = "run"
    /\ \E q \in Queries : last' = Answer(q, search_documents(docs, q))
    /\ UNCHANGED <<pc, token, sites, si, documents, docs, documents_table,
                   globals, out, rows>>

Next ==
    \/ GetAccessToken
    \/ ListSites
    \/ VisitSite
    \/ FinishFetch
    \/ BuildTable
    \/ PwRun
    \/ HandleRequest

Spec == Init /\ [][Next]_vars

(***************************************************************************)
(* Requests in flight together: the same handler, one step of the call of  *)
(* search_documents at a time, each call with its own locals in its row.   *)
(***************************************************************************)
\* the connector adds a row to input_table
Receive(s) ==
    /\ pc = "run"
    /\ rows[s] = Idle
    /\ \E q \in ConcQueries :
         rows' = [rows EXCEPT ![s] = [phase |-> "called", query |-> q]]
    /\ UNCHANGED <<pc, token, sites, si, documents, docs, documents_table,
                   globals, out, last>>

\* lines 118-122: the test of docs, and the locals of the call
\* (BeginKeepsHistory: a matching_docs that starts from the list of the
\* last answer)
BeginKeepsHistory(s) ==
    /\ pc = "run"
    /\ rows[s].phase = "called"
    /\ rows' = [rows EXCEPT ![s] =
         IF ~NonEmpty(docs)
         THEN [phase |-> "done", query |-> rows[s].query, raised |-> FALSE,
               matching_docs |-> <<>>, result |-> EmptyResult(rows[s].query)]
         ELSE [phase |-> "scan", query |-> rows[s].query,
               query_lower |-> lower(rows[s].query), k |-> 1,
               matching_docs |-> IF last.phase = "done"
                                 THEN last.matching_docs ELSE <<>>]]
    /\ UNCHANGED <<pc, token, sites, si, documents, docs, documents_table,
                   globals, out, last>>
Begin(s) ==
    /\ pc = "run"
    /\ rows[s].phase = "called"
    /\ rows' = [rows EXCEPT ![s] =
         IF ~NonEmpty(docs)
         THEN [phase |-> "done", query |-> rows[s].query, raised |-> FALSE,
               matching_docs |-> <<>>, result |-> EmptyResult(rows[s].query)]
         ELSE [phase |-> "scan", query |-> rows[s].query,
               query_lower |-> lower(rows[s].query), k |-> 1,
               matching_docs |-> <<>>]]
    /\ UNCHANGED <<pc, token, sites, si, documents, docs, documents_table,
                   globals, out, last>>

\* lines 123-127: the comprehension looks at one more document
Scan(s) ==
    /\ pc = "run"
    /\ rows[s].phase = "scan"
    /\ rows[s].k <= Len(docs)
    /\ LET r == ComprehensionStep(docs, rows[s].k, rows[s].query_lower,
                                  rows[s].matching_docs)
       IN  rows' = [rows EXCEPT ![s] =
             IF r.raised
             THEN [phase |-> "done", query |-> rows[s].query, raised |-> TRUE,
                   matching_docs |-> r.matching_docs]
             ELSE [rows[s] EXCEPT !.k = rows[s].k + 1,
                                  !.matching_docs = r.matching_docs]]
    /\ UNCHANGED <<pc, token, sites, si, documents, docs, documents_table,
                   globals, out, last>>

\* lines 129-135: the dict is built and returned
ReturnResult(s) ==
    /\ pc = "run"
    /\ rows[s].phase = "scan"
    /\ rows[s].k > Len(docs)
    /\ rows' = [rows EXCEPT ![s] =
         [phase |-> "done", query |-> rows[s].query, raised |-> FALSE,
          matching_docs |-> rows[s].matching_docs,
          result |-> SuccessResult(docs, rows[s].query, rows[s].matching_docs)]]
    /\ UNCHANGED <<pc, token, sites, si, documents, docs, documents_table,
                   globals, out, last>>

\* line 143: response_writer sends the row of output, and the connector
\* deletes the completed query (delete_completed_queries=True)
Respond(s) ==
    /\ pc = "run"
    /\ rows[s].phase = "done"
    /\ last' = rows[s]
    /\ rows' = [rows EXCEPT ![s] = Idle]
    /\ UNCHANGED <<pc, token, sites, si, documents, docs, documents_table,
                   globals, out>>

ConcNext ==
    \/ GetAccessToken
    \/ ListSitesSmall
    \/ VisitSite
    \/ FinishFetch
    \/ BuildTable
    \/ PwRun
    \/ \E s \in Slots : Receive(s)
    \/ \E s \in Slots : Begin(s)
    \/ \E s \in Slots : Scan(s)
    \/ \E s \in Slots : ReturnResult(s)
    \/ \E s \in Slots : Respond(s)

ConcSpec == Init /\ [][ConcNext]_vars

(***************************************************************************)
(* Vocabulary of the properties.                                           *)
(***************************************************************************)
\* the server state of the design: ready once pw.run serves
ServerState(p) == IF p = "run" THEN "ready" ELSE "uninitialized"

\* a request was answered / answered with a dict (no exception)
Answered == pc = "run" /\ last.phase = "done"
Returned == Answered /\ ~last.raised

\* n occurs in h as a contiguous block
IsSubstring(n, h) ==
    \E pre \in 0..Len(h) :
        /\ pre + Len(n) <= Len(h)
        /\ \A j \in 1..Len(n) : h[pre + j] = n[j]

\* the record matches the query by its name or by its site
RecordMatches(d, q) ==
    \/ IsSubstring(lower(q), lower(d.name))
    \/ IsStr(d.site) /\ IsSubstring(lower(q), lower(d.site))

MatchIndices(S, q) == { k \in 1..Len(S) : RecordMatches(S[k], q) }

\* the j-th smallest index of the set I
Nth(I, j) == CHOOSE k \in I : Cardinality({ i \in I : i <= k }) = j

\* the index in S of the j-th match
NthMatch(S, q, j) == Nth(MatchIndices(S, q), j)

\* m lists the matches of q in S in the order of S
IsStableFilter(m, S, q) ==
    LET I == MatchIndices(S, q)
    IN  /\ Len(m) = Cardinality(I)
        /\ \A j \in 1..Len(m) :
             /\ m[j].name = S[Nth(I, j)].name
             /\ m[j].site = S[Nth(I, j)].site
             /\ m[j].url = S[Nth(I, j)].url


(***************************************************************************)
(* C1: the records a request reports as matching are exactly the records   *)
(* of the store whose lower-cased name or lower-cased site contains the    *)
(* lower-cased query, in the order of the store; content is not consulted. *)
(***************************************************************************)
C1_MatchIsStableFilter ==
    (Returned /\ NonEmpty(docs)) =>
        /\ IsStableFilter(last.matching_docs, docs, last.query)
        /\ last.result.matching_documents
             = Cardinality(MatchIndices(docs, last.query))

\* a record that matches by its site alone, and a record that does not
\* match although its content contains the query
C1_Witness ==
    /\ Returned
    /\ Len(docs) >= 3
    /\ Len(last.matching_docs) >= 2
    /\ Len(last.matching_docs) < Len(docs)
    /\ \E k \in MatchIndices(docs, last.query) :
         ~IsSubstring(lower(last.query), lower(docs[k].name))
    /\ \E k \in 1..Len(docs) :
         /\ k \notin MatchIndices(docs, last.query)
         /\ IsSubstring(lower(last.query), lower(docs[k].content))

C3_CountAndTruncation ==
    (Returned /\ NonEmpty(docs)) =>
        LET r == last.result
            n == Cardinality(MatchIndices(docs, last.query))
        IN  /\ r.matching_documents = n
            /\ Len(r.results) = (IF n < 5 THEN n ELSE 5)
            /\ \A j \in 1..Len(r.results) : r.results[j] = last.matching_docs[j]
            /\ IsStableFilter(last.matching_docs, docs, last.query)
            /\ Len(r.results) <= 5
            /\ r.matching_documents >= Len(r.results)

\* seven matches, five of them returned
C3_Witness ==
    /\ Returned
    /\ NonEmpty(docs)
    /\ last.result.matching_documents = 7
    /\ Len(last.result.results) = 5

(***************************************************************************)
(* C4 as stated: nothing that goes wrong while contacting the Document     *)
(* Source at startup makes the process crash.                              *)
(***************************************************************************)
C4_StartupNeverCrashes == pc # "crashed"

(***************************************************************************)
(* C5 as stated: when a step of the fetch failed the list docs is bound to *)
(* is empty, and the fetch is not entered again once it was left.          *)
(***************************************************************************)
C5_EmptyOnAnyFailure ==
    [][ /\ ("docs" \in globals' /\ out' \cap {"error_token", "error_fetch"} # {})
            => Len(docs') = 0
        /\ (pc # "fetch") => (pc' # "fetch") ]_vars

(***************************************************************************)
(* C6 as stated: once ready, no request on a store the ingestion built     *)
(* raises; every request is answered with a dict.                          *)
(***************************************************************************)
C6_HandleNeverRaises == Answered => ~last.raised

C8_EmptyQueryMatchesAll ==
    (Answered /\ last.query = <<>> /\ NonEmpty(docs)) =>
        /\ ~last.raised
        /\ last.result.total_documents = Len(docs)
        /\ last.result.matching_documents = last.result.total_documents
        /\ Len(last.matching_docs) = Len(docs)
        /\ \A k \in 1..Len(docs) :
             /\ last.matching_docs[k].name = docs[k].name
             /\ last.matching_docs[k].site = docs[k].site
             /\ last.matching_docs[k].url = docs[k].url

C8_Witness ==
    /\ Returned
    /\ last.query = <<>>
    /\ Len(docs) >= 6
    /\ \E k \in 1..Len(docs) : ~IsStr(docs[k].site)

(***************************************************************************)
(* C10: every entry of results is the corresponding matching record with   *)
(* exactly the fields name, site and url, values unchanged, and content    *)
(* is in no response.                                                      *)
(***************************************************************************)
C10_ResultsAreProjections ==
    Returned =>
        /\ "content" \notin DOMAIN last.result
        /\ NonEmpty(docs) =>
             \A j \in 1..Len(last.result.results) :
                LET e == last.result.results[j]
                    d == docs[NthMatch(docs, last.query, j)]
                IN  /\ DOMAIN e = {"name", "site", "url"}
                    /\ e.name = d.name
                    /\ e.site = d.site
                    /\ e.url = d.url

C10_Witness ==
    /\ Returned
    /\ NonEmpty(docs)
    /\ Len(last.result.results) >= 2
    /\ Len(last.result.results) < Len(docs)
    /\ last.result.results[1].url # last.result.results[2].url

(***************************************************************************)
(* C9: once ready, docs is not changed, and every call that completes,     *)
(* whatever other calls are in flight, completes with what                 *)
(* search_documents gives for its query on docs alone.                     *)
(***************************************************************************)
C9_IndependentRequests ==
    [][ /\ ServerState(pc) = "ready" => docs' = docs
        /\ \A s \in Slots :
             rows'[s].phase = "done" =>
                 rows'[s] = Answer(rows'[s].query,
                                   search_documents(docs, rows'[s].query)) ]_vars

\* a call completed while another, received after an earlier answer, is in
\* the middle of the store
C9_Witness ==
    /\ pc = "run"
    /\ Len(docs) >= 2
    /\ last.phase = "done"
    /\ \E s, t \in Slots :
         /\ rows[s].phase = "done"
         /\ Len(rows[s].matching_docs) >= 1
         /\ rows[t].phase = "scan"
         /\ rows[t].k = 2

====
